---- MODULE Spec2Model ----
(***************************************************************************)
(* FirstWaveAI emergency dispatcher: the agent graph of                    *)
(* backend/agents/graph.py driven by the two dispatch endpoints of         *)
(* backend/main.py (dispatch_emergency, event_generator).                  *)
(*                                                                         *)
(* Encoding of Python / JSON values:                                       *)
(*   - str            a TLA+ string                                        *)
(*   - None / null    the string Null                                      *)
(*   - True / False   the strings True / False                             *)
(*   - list           a sequence                                           *)
(*   - dict           a function whose DOMAIN is the set of keys; where    *)
(*                    insertion order is read by the code (the resources   *)
(*                    wish-list), a sequence of <<key, value>> pairs       *)
(*   - LLM text       a sequence of tokens, see json_loads                 *)
(***************************************************************************)
EXTENDS Integers, Sequences, FiniteSets, TLC

VARIABLES
    mode,       \* "sync" (POST /dispatch) or "stream" (POST /dispatch/stream)
    api_key,    \* os.getenv("GROQ_API_KEY") is set
    pc,         \* the node the graph runs next; "END" after a terminal node
    state,      \* DispatcherState: the channels written so far
    outputs,    \* the nodes run so far, in order: [agent, data, fault]
    events,     \* the server-sent events event_generator has yielded
    serfails,   \* number of json.dumps failures in event_generator so far
    dumps_fails,\* json.dumps may fail on an event (it cannot on JSON-born data)
    http,       \* outcome at the boundary: "running", "200", or an error
    run,        \* the request being served: its id, when the service is
                \* mocked the response scripted for each node, and whether
                \* the network shows transient errors
    other,      \* a second request in progress, suspended between two steps
    defaults    \* the dict objects handed to with_error_handling at import:
                \* module-level, shared by every run of the process

vars == <<mode, api_key, pc, state, outputs, events, serfails, dumps_fails, http,
          run, other, defaults>>

----------------------------------------------------------------------------
(* Values *)

Null == "<null>"
True == "<true>"
False == "<false>"

\* Python truthiness of a scalar JSON value (None, False and "" are falsy).
Truthy(v) == v \notin {Null, False, ""}

\* dict.get(key, default)
Get(d, key, default) == IF key \in DOMAIN d THEN d[key] ELSE default

\* {**a, **b}: keys of b win
DictMerge(a, b) ==
    [k \in (DOMAIN a) \cup (DOMAIN b) |-> IF k \in DOMAIN b THEN b[k] ELSE a[k]]

\* the empty dict {}
EmptyDict == [k \in {} |-> Null]

----------------------------------------------------------------------------
(* LLM response text and JSON parsing *)

\* Tokens of a response text: "{" and "}" are the braces, "m" stands for a
\* well-formed member list ("key": value, ...) whose meaning is the payload
\* that comes with the response, "n" is a JSON number, "j" is any text that
\* is not JSON, " " is whitespace.
Tokens == {"{", "}", "m", "n", "j", " "}

RECURSIVE lstrip(_)
lstrip(s) == IF s # <<>> /\ Head(s) = " " THEN lstrip(Tail(s)) ELSE s

RECURSIVE rstrip(_)
rstrip(s) ==
    IF s # <<>> /\ s[Len(s)] = " " THEN rstrip(SubSeq(s, 1, Len(s) - 1)) ELSE s

\* str.strip()
strip(s) == rstrip(lstrip(s))

\* str.find(c): 1-based index of the first c, 0 when there is none
find(s, c) ==
    IF \E i \in 1..Len(s) : s[i] = c
    THEN CHOOSE i \in 1..Len(s) : s[i] = c /\ \A j \in 1..(i - 1) : s[j] # c
    ELSE 0

\* rfind, were it to look from the left as find does.
rfind_FromLeft(s, c) ==
    IF \E i \in 1..Len(s) : s[i] = c
    THEN CHOOSE i \in 1..Len(s) : s[i] = c /\ \A j \in 1..(i - 1) : s[j] # c
    ELSE 0

\* str.rfind(c): 1-based index of the last c, 0 when there is none
rfind(s, c) ==
    IF \E i \in 1..Len(s) : s[i] = c
    THEN CHOOSE i \in 1..Len(s) : s[i] = c /\ \A j \in (i + 1)..Len(s) : s[j] # c
    ELSE 0

\* The token sequence without its whitespace tokens.
NoSpace(s) == SelectSeq(s, LAMBDA t : t # " ")

\* json.loads(text): [ok |-> FALSE] stands for json.JSONDecodeError.  JSON
\* documents of the token language: a number, the empty object, an object
\* with the payload's members; whitespace around tokens is insignificant.
json_loads(s, payload) ==
    LET t == NoSpace(s) IN
    IF t = <<"n">> THEN [ok |-> TRUE, isdict |-> FALSE, val |-> EmptyDict]
    ELSE IF t = <<"{", "}">> THEN [ok |-> TRUE, isdict |-> TRUE, val |-> EmptyDict]
    ELSE IF t = <<"{", "m", "}">> THEN [ok |-> TRUE, isdict |-> TRUE, val |-> payload]
    ELSE [ok |-> FALSE, isdict |-> FALSE, val |-> EmptyDict]

\* safe_json_parse(content, agent_name): ok = FALSE stands for the None result.
safe_json_parse(content, payload) ==
    LET c == strip(content)
        direct == json_loads(c, payload)
        start == find(c, "{")
        end == rfind(c, "}")
    IN  IF direct.ok THEN direct
        ELSE IF start # 0 /\ end # 0 /\ end > start
             THEN LET sub == json_loads(SubSeq(c, start, end), payload)
                  IN  IF sub.ok THEN sub
                      ELSE [ok |-> FALSE, isdict |-> FALSE, val |-> EmptyDict]
             ELSE [ok |-> FALSE, isdict |-> FALSE, val |-> EmptyDict]

----------------------------------------------------------------------------
(* Exceptions and the error-handling decorator *)

\* The exception classes the decorator tells apart (json.JSONDecodeError is
\* a ValueError but has its own, earlier, handler; "Exception" is any other).
ExcKinds == {"JSONDecodeError", "ValueError", "ConnectionError", "Exception"}

Return(update) == [tag |-> "return", val |-> update, exc |-> "none"]
Raise(kind) == [tag |-> "raise", val |-> EmptyDict, exc |-> kind]

\* get_model(): raises ValueError when GROQ_API_KEY is not set.
get_model == IF api_key THEN "none" ELSE "ValueError"

\* The text of the _error marker, by handler.
ErrorText(kind) ==
    CASE kind = "JSONDecodeError" -> "JSON parsing error"
      [] kind = "ValueError" -> "Configuration error"
      [] kind = "ConnectionError" -> "Connection error"
      [] OTHER -> "Unexpected error"

\* Mutant of with_error_handling: the decorator without its last handler
\* (except Exception), so an unclassified exception leaves the node.
with_error_handling_NoCatchAll(default_return, result) ==
    IF result.tag = "return" \/ result.exc = "Exception" THEN result
    ELSE Return(DictMerge(default_return, "_error" :> ErrorText(result.exc)))

\* with_error_handling(agent_name, default_return)(func): result is what
\* func(state) did, default_return the (evaluated) fallback.
with_error_handling(default_return, result) ==
    IF result.tag = "return" THEN result
    ELSE Return(DictMerge(default_return, "_error" :> ErrorText(result.exc)))

\* model.invoke(...) followed by safe_json_parse(response.content, ...):
\* the exception raised before a response exists, or "none".
InvokeExc(resp) == IF get_model # "none" THEN get_model ELSE resp.exc

----------------------------------------------------------------------------
(* Agent nodes *)

extraction_default ==
    [extracted |-> [location |-> Null, injuries |-> Null, hazards |-> Null,
                    people_count |-> Null, caller_info |-> Null]]

extraction_body(st, resp) ==
    IF InvokeExc(resp) # "none" THEN Raise(InvokeExc(resp))
    ELSE LET parsed == safe_json_parse(resp.content, resp.payload) IN
         IF ~parsed.ok THEN Return([extracted |-> [raw_response |-> resp.content]])
         ELSE IF ~parsed.isdict THEN Raise("Exception")   \* extracted.keys()
         ELSE Return([extracted |-> parsed.val])

extraction_agent(st, resp) ==
    with_error_handling(defaults["extraction"], extraction_body(st, resp))

triage_default ==
    [incident_type |-> "unknown - processing error",
     severity |-> "P2",
     key_risks |-> <<"Unable to complete triage - manual review recommended">>]

triage_body(st, resp) ==
    IF InvokeExc(resp) # "none" THEN Raise(InvokeExc(resp))
    ELSE LET parsed == safe_json_parse(resp.content, resp.payload) IN
         IF ~parsed.ok
         THEN Return([incident_type |-> "unknown",
                      severity |-> "P2",
                      key_risks |-> <<"Unable to parse triage response">>])
         ELSE IF ~parsed.isdict THEN Raise("Exception")   \* result.get
         ELSE Return([incident_type |-> Get(parsed.val, "incident_type", "unknown"),
                      severity |-> Get(parsed.val, "severity", Null),
                      key_risks |-> Get(parsed.val, "key_risks", <<>>)])

triage_agent(st, resp) ==
    with_error_handling(defaults["triage"], triage_body(st, resp))

\* The default of next_question, were it to call the information complete.
next_question_default_Complete ==
    [missing_info |-> <<"Unable to analyze - manual review needed">>,
     suggested_questions |-> <<"Can you confirm your exact location?",
                               "Is anyone injured?",
                               "Are you in a safe place?">>,
     info_complete |-> True]

next_question_default ==
    [missing_info |-> <<"Unable to analyze - manual review needed">>,
     suggested_questions |-> <<"Can you confirm your exact location?",
                               "Is anyone injured?",
                               "Are you in a safe place?">>,
     info_complete |-> False]

next_question_body(st, resp) ==
    IF InvokeExc(resp) # "none" THEN Raise(InvokeExc(resp))
    ELSE LET parsed == safe_json_parse(resp.content, resp.payload) IN
         IF ~parsed.ok
         THEN Return([missing_info |-> <<"Unable to analyze">>,
                      suggested_questions |-> <<"Can you confirm your exact location?">>,
                      info_complete |-> False])
         ELSE IF ~parsed.isdict THEN Raise("Exception")   \* result.get
         ELSE Return([missing_info |-> Get(parsed.val, "missing_info", <<>>),
                      suggested_questions |-> Get(parsed.val, "suggested_questions", <<>>),
                      info_complete |-> Get(parsed.val, "info_complete", False)])

next_question_agent(st, resp) ==
    with_error_handling(defaults["next_question"], next_question_body(st, resp))

\* The resources wish-list: a dict (ordered <<key, value>> pairs), a list
\* (ordered <<name>> items), or a value that is neither.
WishDict(items) == [shape |-> "dict", items |-> items]
WishList(items) == [shape |-> "list", items |-> items]

\* ', '.join(state.get('key_risks', [])) while the prompt context is built:
\* TypeError when an item of key_risks is not a string.
JoinFails(st) ==
    LET key_risks == Get(st, "key_risks", <<>>) IN
    \E i \in 1..Len(key_risks) : key_risks[i] = Null

\* get_model(), then the context, then model.invoke(...): the exception
\* raised before a response exists, or "none".
ContextExc(st, resp) ==
    IF get_model # "none" THEN get_model
    ELSE IF JoinFails(st) THEN "Exception"
    ELSE resp.exc

_get_default_dispatch(st) ==
    [dispatch_recommendation |->
        [resources |-> WishDict(<<<<"ems", "yes">>, <<"fire", "no">>, <<"police", "no">>>>),
         priority |-> Get(st, "severity", "P2"),
         rationale |-> "Default dispatch - manual review recommended",
         special_units |-> <<>>]]

dispatch_planner_default ==
    [dispatch_recommendation |->
        [resources |-> WishDict(<<<<"ems", "yes">>, <<"fire", "no">>, <<"police", "no">>>>),
         priority |-> "P2",
         rationale |-> "Default dispatch due to processing error",
         special_units |-> <<>>]]

dispatch_planner_body(st, resp) ==
    IF ContextExc(st, resp) # "none" THEN Raise(ContextExc(st, resp))
    ELSE LET parsed == safe_json_parse(resp.content, resp.payload) IN
         IF ~parsed.ok THEN Return(_get_default_dispatch(st))
         ELSE IF ~parsed.isdict THEN Raise("Exception")   \* result.get
         ELSE Return([dispatch_recommendation |-> parsed.val])

dispatch_planner_agent(st, resp) ==
    with_error_handling(dispatch_planner_default, dispatch_planner_body(st, resp))

\* str.lower() and str.upper() on the category names of the model.
CategoryNames ==
    {"ems", "EMS", "Ems", "fire", "FIRE", "police", "POLICE", "hazmat", "HAZMAT"}

lower(name) ==
    CASE name \in {"ems", "EMS", "Ems"} -> "ems"
      [] name \in {"fire", "FIRE"} -> "fire"
      [] name \in {"police", "POLICE"} -> "police"
      [] name \in {"hazmat", "HAZMAT"} -> "hazmat"
      [] OTHER -> name

upper(name) ==
    CASE name \in {"ems", "EMS", "Ems"} -> "EMS"
      [] name \in {"fire", "FIRE"} -> "FIRE"
      [] name \in {"police", "POLICE"} -> "POLICE"
      [] name \in {"hazmat", "HAZMAT"} -> "HAZMAT"
      [] OTHER -> name

\* The dummy resource table of resource_locator_agent.
resource_database ==
    [ems |-> <<[name |-> "Medic Unit 7", station |-> "Station 7",
                distance_miles |-> "1.2", eta_minutes |-> 4],
               [name |-> "Ambulance 12", station |-> "Central Hospital",
                distance_miles |-> "2.5", eta_minutes |-> 7]>>,
     fire |-> <<[name |-> "Engine 3", station |-> "Fire Station 3",
                 distance_miles |-> "0.8", eta_minutes |-> 3],
                [name |-> "Ladder 1", station |-> "Fire Station 1",
                 distance_miles |-> "1.5", eta_minutes |-> 5]>>,
     police |-> <<[name |-> "Unit 42", station |-> "Patrol Zone 4",
                   distance_miles |-> "0.5", eta_minutes |-> 2],
                  [name |-> "Unit 17", station |-> "Patrol Zone 1",
                   distance_miles |-> "1.8", eta_minutes |-> 6]>>]

\* Mutant of NearestEntry: the second unit of the table and the category
\* name as written.
NearestEntry_Second(resource_type, location) ==
    LET nearest == resource_database[lower(resource_type)][2] IN
    [type |-> resource_type,
     unit |-> nearest.name,
     station |-> nearest.station,
     eta_minutes |-> nearest.eta_minutes,
     distance_miles |-> nearest.distance_miles,
     destination |-> location]

\* The entry appended for one requested resource_type.
NearestEntry(resource_type, location) ==
    LET nearest == resource_database[lower(resource_type)][1] IN
    [type |-> upper(resource_type),
     unit |-> nearest.name,
     station |-> nearest.station,
     eta_minutes |-> nearest.eta_minutes,
     distance_miles |-> nearest.distance_miles,
     destination |-> location]

\* The dict loop, were it to end at the first category the table lacks.
RECURSIVE LocateDict_StopAtUnknown(_, _)
LocateDict_StopAtUnknown(items, location) ==
    IF items = <<>> THEN <<>>
    ELSE LET resource_type == Head(items)[1]
             needed == Head(items)[2]
         IN  IF lower(resource_type) \notin DOMAIN resource_database
             THEN <<>>
             ELSE IF needed = "yes"
             THEN <<NearestEntry(resource_type, location)>>
                     \o LocateDict_StopAtUnknown(Tail(items), location)
             ELSE LocateDict_StopAtUnknown(Tail(items), location)

\* The loop over a dict wish-list: for resource_type, needed in items()
RECURSIVE LocateDict(_, _)
LocateDict(items, location) ==
    IF items = <<>> THEN <<>>
    ELSE LET resource_type == Head(items)[1]
             needed == Head(items)[2]
             rest == LocateDict(Tail(items), location)
         IN  IF needed = "yes" /\ lower(resource_type) \in DOMAIN resource_database
                /\ resource_database[lower(resource_type)] # <<>>
             THEN <<NearestEntry(resource_type, location)>> \o rest
             ELSE rest

\* The list loop, were it to type its entries with the name as given.
RECURSIVE LocateList_TypeAsGiven(_, _)
LocateList_TypeAsGiven(items, location) ==
    IF items = <<>> THEN <<>>
    ELSE LET resource_type == Head(items)[1]
             rest == LocateList_TypeAsGiven(Tail(items), location)
         IN  IF lower(resource_type) \in DOMAIN resource_database
             THEN <<[NearestEntry(resource_type, location) EXCEPT !.type = resource_type]>>
                     \o rest
             ELSE rest

\* The loop over a list wish-list: for resource_type in resources_needed
RECURSIVE LocateList(_, _)
LocateList(items, location) ==
    IF items = <<>> THEN <<>>
    ELSE LET resource_type == Head(items)[1]
             rest == LocateList(Tail(items), location)
         IN  IF lower(resource_type) \in DOMAIN resource_database
                /\ resource_database[lower(resource_type)] # <<>>
             THEN <<NearestEntry(resource_type, location)>> \o rest
             ELSE rest

resource_locator_default == [nearest_resources |-> <<>>]

\* A list wish-list may hold an item that is no string (JSON null):
\* resource_type.lower() then raises AttributeError.
resource_locator_body(st) ==
    LET dispatch_rec == Get(st, "dispatch_recommendation", EmptyDict)
        resources_needed == Get(dispatch_rec, "resources", WishDict(<<>>))
        location == Get(Get(st, "extracted", EmptyDict), "location", "Unknown location")
    IN  IF /\ resources_needed.shape = "list"
           /\ \E i \in 1..Len(resources_needed.items) : resources_needed.items[i][1] = Null
        THEN Raise("Exception")
        ELSE
        Return([nearest_resources |->
            IF resources_needed.shape = "dict"
            THEN LocateDict(resources_needed.items, location)
            ELSE IF resources_needed.shape = "list"
            THEN LocateList(resources_needed.items, location)
            ELSE <<>>])

resource_locator_agent(st) ==
    with_error_handling(defaults["resource_locator"], resource_locator_body(st))

safety_guardrail_default ==
    [validated_output |->
        [is_valid |-> True,
         sanitized_recommendation |-> EmptyDict,
         flags |-> <<"Safety guardrail processing error - manual review required">>,
         blocked |-> False,
         block_reason |-> Null]]

\* The guardrail, were its parse fallback to answer with an empty
\* recommendation as the decorator default does.
safety_guardrail_body_EmptyFallback(st, resp) ==
    IF ContextExc(st, resp) # "none" THEN Raise(ContextExc(st, resp))
    ELSE LET parsed == safe_json_parse(resp.content, resp.payload) IN
         IF ~parsed.ok
         THEN Return([validated_output |->
                [is_valid |-> True,
                 sanitized_recommendation |-> EmptyDict,
                 flags |-> <<"Guardrail parsing failed - review manually">>,
                 blocked |-> False,
                 block_reason |-> Null]])
         ELSE IF ~parsed.isdict THEN Raise("Exception")
         ELSE Return([validated_output |-> parsed.val])

safety_guardrail_body(st, resp) ==
    IF ContextExc(st, resp) # "none" THEN Raise(ContextExc(st, resp))
    ELSE LET parsed == safe_json_parse(resp.content, resp.payload) IN
         IF ~parsed.ok
         THEN Return([validated_output |->
                [is_valid |-> True,
                 sanitized_recommendation |-> Get(st, "dispatch_recommendation", EmptyDict),
                 flags |-> <<"Guardrail parsing failed - review manually">>,
                 blocked |-> False,
                 block_reason |-> Null]])
         ELSE IF ~parsed.isdict THEN Raise("Exception")   \* result.get
         ELSE Return([validated_output |-> parsed.val])

safety_guardrail_agent(st, resp) ==
    with_error_handling(safety_guardrail_default, safety_guardrail_body(st, resp))

----------------------------------------------------------------------------
(* Graph construction *)

\* should_dispatch(state): the routing function after next_question.
\* The branch decision, were the completeness verdict alone not enough: it
\* asks for a location as well.
should_dispatch_NeedsLocation(st) ==
    LET extracted == Get(st, "extracted", EmptyDict)
        has_location == Get(extracted, "location", Null) # Null
        incident_type == Get(st, "incident_type", "unknown")
        has_incident == Truthy(incident_type) /\ incident_type # "unknown"
    IN  IF has_location /\ (Truthy(Get(st, "info_complete", False)) \/ has_incident)
        THEN "dispatch_planner"
        ELSE "wait_for_info"

\* The branch decision, were it to ask for a reported injury as well as a
\* location and a known incident_type.
should_dispatch_NeedsInjuries(st) ==
    LET info_complete == Get(st, "info_complete", False) IN
    IF Truthy(info_complete) THEN "dispatch_planner"
    ELSE LET extracted == Get(st, "extracted", EmptyDict)
             has_location == Get(extracted, "location", Null) # Null
             has_injuries == Get(extracted, "injuries", Null) # Null
             incident_type == Get(st, "incident_type", "unknown")
             has_incident == Truthy(incident_type) /\ incident_type # "unknown"
         IN  IF has_location /\ has_injuries /\ has_incident THEN "dispatch_planner"
             ELSE "wait_for_info"

should_dispatch(st) ==
    LET info_complete == Get(st, "info_complete", False) IN
    IF Truthy(info_complete) THEN "dispatch_planner"
    ELSE LET extracted == Get(st, "extracted", EmptyDict)
             has_location == Get(extracted, "location", Null) # Null
             incident_type == Get(st, "incident_type", "unknown")
             has_incident == Truthy(incident_type) /\ incident_type # "unknown"
         IN  IF has_location /\ has_incident THEN "dispatch_planner"
             ELSE "wait_for_info"

\* Mutant of wait_for_info_node: only the recommendation is written, and it
\* carries a priority.
wait_for_info_node_OnlyRecommendation(st) ==
    Return(
      [dispatch_recommendation |->
          [status |-> "pending_info",
           resources |-> WishDict(<<<<"ems", "no">>, <<"fire", "no">>, <<"police", "no">>>>),
           priority |-> "P2",
           rationale |-> "Waiting for more information before making dispatch recommendation",
           special_units |-> <<>>,
           needs_more_info |-> True]])

wait_for_info_node(st) ==
    Return(
      [dispatch_recommendation |->
          [status |-> "pending_info",
           resources |-> WishDict(<<<<"ems", "no">>, <<"fire", "no">>, <<"police", "no">>>>),
           priority |-> Null,
           rationale |-> "Waiting for more information before making dispatch recommendation",
           special_units |-> <<>>,
           needs_more_info |-> True],
       nearest_resources |-> <<>>,
       validated_output |->
          [is_valid |-> False,
           status |-> "pending_info",
           message |-> "More information needed before dispatch recommendation",
           blocked |-> False]])

\* The channels of DispatcherState: a node's update writes these keys only.
StateKeys ==
    {"transcript", "extracted", "incident_type", "severity", "key_risks",
     "missing_info", "suggested_questions", "info_complete",
     "dispatch_recommendation", "nearest_resources", "validated_output",
     "evaluation_report", "messages"}

\* The merge, were the update to replace the state instead of joining it.
Merge_ReplaceState(st, update) ==
    [k \in (DOMAIN update) \cap StateKeys |-> update[k]]

\* The graph merging a node's partial update into the state.
Merge(st, update) ==
    [k \in (DOMAIN st) \cup ((DOMAIN update) \cap StateKeys) |->
        IF k \in DOMAIN update THEN update[k] ELSE st[k]]

\* Mutant of EdgeFrom: wait_for_info leads on to dispatch_planner instead
\* of END.
EdgeFrom_WaitThenDispatch(node) ==
    CASE node = "START" -> "extraction"
      [] node = "extraction" -> "triage"
      [] node = "triage" -> "next_question"
      [] node = "dispatch_planner" -> "resource_locator"
      [] node = "resource_locator" -> "safety_guardrail"
      [] node = "safety_guardrail" -> "END"
      [] node = "wait_for_info" -> "dispatch_planner"

\* The unconditional edges of build_dispatcher_graph.
EdgeFrom(node) ==
    CASE node = "START" -> "extraction"
      [] node = "extraction" -> "triage"
      [] node = "triage" -> "next_question"
      [] node = "dispatch_planner" -> "resource_locator"
      [] node = "resource_locator" -> "safety_guardrail"
      [] node = "safety_guardrail" -> "END"
      [] node = "wait_for_info" -> "END"

----------------------------------------------------------------------------
(* Inputs: transcripts and what the text-generation service answers *)

Transcripts == {"My husband collapsed, he is not breathing"}

\* Response texts: a JSON object, a JSON object inside prose, prose alone,
\* a JSON number, the empty JSON object.
Texts ==
    {<<"{", "m", "}">>, <<"j", "{", "m", "}", "j">>, <<"j">>, <<"n">>, <<"{", "}">>}

\* What one model.invoke can do: raise, or answer a text whose member list
\* (if it has one) means payload.
Responses(payloads) ==
    {[exc |-> k, content |-> <<>>, payload |-> EmptyDict] : k \in ExcKinds}
    \cup {[exc |-> "none", content |-> t, payload |-> p] : t \in Texts, p \in payloads}

ExtractionPayloads ==
    {[location |-> "123 Main St", injuries |-> "not breathing", hazards |-> Null,
      people_count |-> Null, caller_info |-> "spouse"],
     [location |-> Null, injuries |-> "not breathing", hazards |-> Null,
      people_count |-> Null, caller_info |-> Null]}

TriagePayloads ==
    {[incident_type |-> i, severity |-> v, key_risks |-> <<"airway">>] :
        i \in {"cardiac arrest", "unknown", "", Null},
        v \in {"P1", "P2", "P3", "P4", Null}}
    \cup {[incident_type |-> "cardiac arrest", severity |-> "P1",
            key_risks |-> <<Null>>]}

NextQuestionPayloads ==
    {[missing_info |-> <<"location">>, suggested_questions |-> <<"Where are you?">>,
      info_complete |-> c] : c \in {True, False}}

DispatchPlannerPayloads ==
    {[resources |-> WishDict(<<<<"ems", "yes">>, <<"fire", "no">>, <<"police", "yes">>>>),
      priority |-> "P1", rationale |-> "cardiac arrest", special_units |-> <<>>],
     [resources |-> WishDict(<<<<"hazmat", "yes">>, <<"EMS", "yes">>>>),
      priority |-> "P2", rationale |-> "spill", special_units |-> <<"HAZMAT">>],
     [resources |-> WishList(<<<<"EMS">>, <<"FIRE">>>>),
      priority |-> "P1", rationale |-> "fire", special_units |-> <<>>],
     [resources |-> WishList(<<<<"POLICE">>, <<Null>>>>),
      priority |-> "P2", rationale |-> "assault", special_units |-> <<>>],
     [priority |-> "P3", rationale |-> "no wish-list"]}

SafetyGuardrailPayloads ==
    {[is_valid |-> True,
      sanitized_recommendation |-> [summary |-> "Recommend dispatching EMS"],
      flags |-> <<>>, blocked |-> False, block_reason |-> Null],
     [is_valid |-> False,
      sanitized_recommendation |-> EmptyDict,
      flags |-> <<"unsafe">>, blocked |-> True, block_reason |-> "unsafe content"]}

\* At most this many json.dumps failures are explored in one stream.
MaxSerFails == 1

----------------------------------------------------------------------------
(* The boundary: dispatch_emergency and event_generator *)

\* Mutant of StreamEvent: an output that carries _error is yielded as an
\* error event.
StreamEvent_ErrorAsMarker(node_name, node_output, ser_ok) ==
    IF "_error" \in DOMAIN node_output
    THEN [type |-> "error", agent |-> node_name, data |-> node_output]
    ELSE [type |-> "data", agent |-> node_name, data |-> node_output]

\* The loop body of event_generator for one output of the graph: tag the
\* output when it carries _error, then yield it (or, when json.dumps fails,
\* a serialization-error event for the same agent).
StreamEvent(node_name, node_output, ser_ok) ==
    LET tagged == IF "_error" \in DOMAIN node_output
                  THEN DictMerge(node_output, "_had_error" :> True)
                  ELSE node_output
    IN  IF ser_ok
        THEN [type |-> "data", agent |-> node_name, data |-> tagged]
        ELSE [type |-> "data", agent |-> node_name,
              data |-> ("_error" :> "Serialization error")]

\* The except clauses around the run, by exception class.
SyncFailure(kind) ==
    IF kind \in {"ValueError", "JSONDecodeError"}
    THEN "500 Service configuration error"
    ELSE "500 Failed to process dispatch request"

\* Mutant of StreamFailure: the except clauses yield an ordinary data event.
StreamFailure_AsData(kind) ==
    [type |-> "data", agent |-> "", data |-> ("error" :> "Stream error")]

StreamFailure(kind) ==
    [type |-> "error",
     agent |-> "",
     data |-> ("error" :>
        (IF kind \in {"ValueError", "JSONDecodeError"} THEN "Configuration error"
         ELSE IF kind = "ConnectionError" THEN "Connection error - please try again"
         ELSE "Stream error"))]

DoneEvent == [type |-> "done", agent |-> "", data |-> EmptyDict]

\* DispatchResponse(...): pydantic accepts the final state's fields.
DispatchResponseValid(result) ==
    /\ Get(result, "incident_type", "unknown") # Null
    /\ Get(result, "info_complete", False) # Null
    /\ \A i \in 1..Len(Get(result, "key_risks", <<>>)) : result["key_risks"][i] # Null

\* What went wrong inside a node: the exception class its undecorated
\* function raised, "parse" when safe_json_parse returned None and the
\* function answered with its inline fallback, "none" otherwise.
Fault(body, resp) ==
    IF body.tag = "raise" THEN body.exc
    ELSE IF InvokeExc(resp) = "none" /\ ~safe_json_parse(resp.content, resp.payload).ok
    THEN "parse"
    ELSE "none"

\* ChatGroq(..., max_retries=2): the client repeats a request that met a
\* transient error.
max_retries == 2

\* The requests, were resource_locator to ask the service too.
Requests_LocatorAsks(node, st) ==
    IF node = "wait_for_info" THEN {0}
    ELSE IF get_model # "none" THEN {0}
    ELSE IF node \in {"dispatch_planner", "safety_guardrail"} /\ JoinFails(st) THEN {0}
    ELSE IF run.transient THEN 1..(1 + max_retries)
    ELSE {1}

\* The number of requests node may send to the service from state st: none
\* without model.invoke (resource_locator, wait_for_info) or when the
\* function raises before it gets there; else one, and up to max_retries
\* more when the network shows transient errors.
Requests(node, st) ==
    IF node \in {"resource_locator", "wait_for_info"} THEN {0}
    ELSE IF get_model # "none" THEN {0}
    ELSE IF node \in {"dispatch_planner", "safety_guardrail"} /\ JoinFails(st) THEN {0}
    ELSE IF run.transient THEN 1..(1 + max_retries)
    ELSE {1}

\* The module-level default dicts at import time.  dispatch_planner and
\* safety_guardrail pass a lambda, which builds a new dict at each failure.
ModuleDefaults ==
    [extraction |-> extraction_default,
     triage |-> triage_default,
     next_question |-> next_question_default,
     resource_locator |-> resource_locator_default]

\* The module-level dicts, were the wrapper to add _error to the default
\* itself and return it: the _error key, and the _had_error tag that
\* event_generator puts on what the node returned, stay in the default.
DefaultsAfter_InPlace(d, node, node_output, streamed) ==
    IF node \in DOMAIN d /\ "_error" \in DOMAIN node_output
    THEN [d EXCEPT ![node] = IF streamed
                             THEN DictMerge(node_output, "_had_error" :> True)
                             ELSE node_output]
    ELSE d

\* The module-level dicts after node returned node_output and, in a stream,
\* event_generator tagged it: {**fallback, "_error": ...} is a new dict, so
\* neither key is written into the dict the decorator holds.
DefaultsAfter(d, node, node_output, streamed) == d

\* One step of the graph: node returned result; the graph merges the update,
\* yields it, and follows the edge to next.  An exception leaving the node
\* leaves dispatcher_graph.invoke / .stream and is handled at the boundary.
\* fault is what went wrong inside the node, calls the number of requests
\* the node sent to the service, both for the log.
Step(node, fault, result, next, ser_ok, calls) ==
    IF result.tag = "raise"
    THEN /\ pc' = "ABORTED"
         /\ http' = IF mode = "sync" THEN SyncFailure(result.exc) ELSE "200"
         /\ events' = IF mode = "stream"
                      THEN Append(events, StreamFailure(result.exc))
                      ELSE events
         /\ UNCHANGED <<state, outputs, serfails, defaults>>
    ELSE /\ state' = Merge(state, result.val)
         /\ outputs' = Append(outputs, [agent |-> node, data |-> result.val,
                                     fault |-> fault, calls |-> calls])
         /\ pc' = next
         /\ events' = IF mode = "stream"
                      THEN Append(events, StreamEvent(node, result.val, ser_ok))
                      ELSE events
         /\ serfails' = IF mode = "stream" /\ ~ser_ok THEN serfails + 1 ELSE serfails
         /\ defaults' = DefaultsAfter(defaults, node, result.val, mode = "stream")
         /\ UNCHANGED http

\* What the service may answer to node in this run: the scripted response
\* when the service is mocked, anything otherwise.
ServiceResponses(node, payloads) ==
    IF run.scripted THEN {run.script[node]} ELSE Responses(payloads)

\* A request on its own, served by the live service.
SoleRun == [id |-> 1, scripted |-> FALSE, script |-> EmptyDict, transient |-> FALSE]

\* No second request.
NoRun == [pc |-> "NONE"]

\* json.dumps of an event succeeds or fails.
SerOutcomes ==
    IF dumps_fails /\ mode = "stream" /\ serfails < MaxSerFails
    THEN {TRUE, FALSE}
    ELSE {TRUE}

----------------------------------------------------------------------------
(* Actions *)

Init ==
    /\ mode \in {"sync", "stream"}
    /\ api_key \in BOOLEAN
    /\ pc = "extraction"
    /\ \E t \in Transcripts : state = [transcript |-> t, messages |-> <<>>]
    /\ outputs = <<>>
    /\ events = <<>>
    /\ serfails = 0
    /\ dumps_fails = FALSE
    /\ http = "running"
    /\ run = SoleRun
    /\ other = NoRun
    /\ defaults = ModuleDefaults

Extraction ==
    /\ pc = "extraction"
    /\ \E resp \in ServiceResponses("extraction", ExtractionPayloads), ser_ok \in SerOutcomes,
          calls \in Requests("extraction", state) :
          Step("extraction", Fault(extraction_body(state, resp), resp),
               extraction_agent(state, resp), EdgeFrom("extraction"), ser_ok, calls)
    /\ UNCHANGED <<mode, api_key, dumps_fails, run, other>>

Triage ==
    /\ pc = "triage"
    /\ \E resp \in ServiceResponses("triage", TriagePayloads), ser_ok \in SerOutcomes,
          calls \in Requests("triage", state) :
          Step("triage", Fault(triage_body(state, resp), resp),
               triage_agent(state, resp), EdgeFrom("triage"), ser_ok, calls)
    /\ UNCHANGED <<mode, api_key, dumps_fails, run, other>>

NextQuestion ==
    /\ pc = "next_question"
    /\ \E resp \in ServiceResponses("next_question", NextQuestionPayloads), ser_ok \in SerOutcomes,
          calls \in Requests("next_question", state) :
          LET result == next_question_agent(state, resp) IN
          Step("next_question", Fault(next_question_body(state, resp), resp),
               result,
               should_dispatch(Merge(state, result.val)), ser_ok, calls)
    /\ UNCHANGED <<mode, api_key, dumps_fails, run, other>>

DispatchPlanner ==
    /\ pc = "dispatch_planner"
    /\ \E resp \in ServiceResponses("dispatch_planner", DispatchPlannerPayloads), ser_ok \in SerOutcomes,
          calls \in Requests("dispatch_planner", state) :
          Step("dispatch_planner", Fault(dispatch_planner_body(state, resp), resp),
               dispatch_planner_agent(state, resp),
               EdgeFrom("dispatch_planner"), ser_ok, calls)
    /\ UNCHANGED <<mode, api_key, dumps_fails, run, other>>

ResourceLocator ==
    /\ pc = "resource_locator"
    /\ \E ser_ok \in SerOutcomes, calls \in Requests("resource_locator", state) :
          Step("resource_locator", resource_locator_body(state).exc,
               resource_locator_agent(state),
               EdgeFrom("resource_locator"), ser_ok, calls)
    /\ UNCHANGED <<mode, api_key, dumps_fails, run, other>>

SafetyGuardrail ==
    /\ pc = "safety_guardrail"
    /\ \E resp \in ServiceResponses("safety_guardrail", SafetyGuardrailPayloads), ser_ok \in SerOutcomes,
          calls \in Requests("safety_guardrail", state) :
          Step("safety_guardrail", Fault(safety_guardrail_body(state, resp), resp),
               safety_guardrail_agent(state, resp),
               EdgeFrom("safety_guardrail"), ser_ok, calls)
    /\ UNCHANGED <<mode, api_key, dumps_fails, run, other>>

WaitForInfo ==
    /\ pc = "wait_for_info"
    /\ \E ser_ok \in SerOutcomes, calls \in Requests("wait_for_info", state) :
          Step("wait_for_info", "none", wait_for_info_node(state),
               EdgeFrom("wait_for_info"), ser_ok, calls)
    /\ UNCHANGED <<mode, api_key, dumps_fails, run, other>>

\* The graph has ended: dispatch_emergency builds its DispatchResponse,
\* event_generator yields the done event.
Finish ==
    /\ pc = "END"
    /\ http = "running"
    /\ http' = IF mode = "sync" /\ ~DispatchResponseValid(state)
               THEN SyncFailure("ValueError")
               ELSE "200"
    /\ events' = IF mode = "stream" THEN Append(events, DoneEvent) ELSE events
    /\ UNCHANGED <<mode, api_key, pc, state, outputs, serfails, dumps_fails,
                   run, other, defaults>>

Next ==
    \/ Extraction
    \/ Triage
    \/ NextQuestion
    \/ DispatchPlanner
    \/ ResourceLocator
    \/ SafetyGuardrail
    \/ WaitForInfo
    \/ Finish

Spec == Init /\ [][Next]_vars

\* An exception raised by the graph runtime outside every decorated node
\* (while dispatcher_graph.invoke / .stream runs): the except clauses of
\* dispatch_emergency and event_generator handle it.
GraphFault ==
    /\ pc \in {"extraction", "triage", "next_question", "dispatch_planner",
               "resource_locator", "safety_guardrail", "wait_for_info", "END"}
    /\ http = "running"
    /\ \E kind \in ExcKinds :
          /\ http' = IF mode = "sync" THEN SyncFailure(kind) ELSE "200"
          /\ events' = IF mode = "stream"
                       THEN Append(events, StreamFailure(kind))
                       ELSE events
    /\ pc' = "ABORTED"
    /\ UNCHANGED <<mode, api_key, state, outputs, serfails, dumps_fails,
                   run, other, defaults>>

NextFault == Next \/ GraphFault

\* Runs in which the graph runtime itself may fail.
FaultSpec == Init /\ [][NextFault]_vars

\* Streaming runs in which json.dumps may fail on an event.
SerInit ==
    /\ mode = "stream"
    /\ api_key \in BOOLEAN
    /\ pc = "extraction"
    /\ \E t \in Transcripts : state = [transcript |-> t, messages |-> <<>>]
    /\ outputs = <<>>
    /\ events = <<>>
    /\ serfails = 0
    /\ dumps_fails = TRUE
    /\ http = "running"
    /\ run = SoleRun
    /\ other = NoRun
    /\ defaults = ModuleDefaults

SerSpec == SerInit /\ [][Next]_vars

\* resource_locator_agent on its own: every wish-list of at most MaxWish
\* items, with and without a location.
MaxWish == 3

WishKeys == {"ems", "fire", "police", "EMS", "hazmat"}

RECURSIVE SeqsUpTo(_, _)
SeqsUpTo(S, n) ==
    IF n = 0 THEN {<<>>}
    ELSE LET shorter == SeqsUpTo(S, n - 1)
         IN  shorter \cup {Append(q, x) : q \in {r \in shorter : Len(r) = n - 1}, x \in S}

\* A dict has each key once.
DistinctKeys(items) ==
    \A i, j \in 1..Len(items) : i # j => items[i][1] # items[j][1]

WishLists ==
    {WishDict(q) : q \in {r \in SeqsUpTo(WishKeys \X {"yes", "no"}, MaxWish) :
                              DistinctKeys(r)}}
    \cup {WishList(q) : q \in SeqsUpTo({<<k>> : k \in WishKeys}, MaxWish)}

\* The recommendations dispatch_planner may have left in the state: one per
\* wish-list, and one without the resources key.
LocatorRecommendations ==
    {[resources |-> w, priority |-> "P2", rationale |-> "", special_units |-> <<>>] :
        w \in WishLists}
    \cup {[priority |-> "P2", rationale |-> "", special_units |-> <<>>]}

LocatorInit ==
    /\ mode = "sync"
    /\ api_key = TRUE
    /\ pc = "resource_locator"
    /\ \E t \in Transcripts, d \in LocatorRecommendations, e \in ExtractionPayloads :
          state = [transcript |-> t, messages |-> <<>>, extracted |-> e,
                   dispatch_recommendation |-> d]
    /\ outputs = <<>>
    /\ events = <<>>
    /\ serfails = 0
    /\ dumps_fails = FALSE
    /\ http = "running"
    /\ run = SoleRun
    /\ other = NoRun
    /\ defaults = ModuleDefaults

LocatorSpec == LocatorInit /\ [][ResourceLocator]_vars

\* A synchronous run; the graph runs the next node as long as there is one.
SyncInit == Init /\ mode = "sync"

SyncFairSpec == SyncInit /\ [][Next]_vars /\ WF_vars(Next)

\* Two requests served by one process, each with a mocked service that
\* answers every node of that request with a scripted response.
Raises(kind) == [exc |-> kind, content |-> <<>>, payload |-> EmptyDict]

Answers(payload) == [exc |-> "none", content |-> <<"{", "m", "}">>, payload |-> payload]

Scripts ==
    {[extraction |-> e, triage |-> t, next_question |-> q,
      dispatch_planner |-> d, safety_guardrail |-> g] :
        e \in {Raises("ConnectionError"),
               Answers([location |-> "123 Main St", injuries |-> "not breathing",
                        hazards |-> Null, people_count |-> Null,
                        caller_info |-> "spouse"])},
        t \in {Raises("JSONDecodeError"),
               Answers([incident_type |-> "cardiac arrest", severity |-> "P1",
                        key_risks |-> <<"airway">>])},
        q \in {Raises("Exception"),
               Answers([missing_info |-> <<"location">>,
                        suggested_questions |-> <<"Where are you?">>,
                        info_complete |-> True])},
        d \in {Answers([resources |-> WishList(<<<<"POLICE">>, <<Null>>>>),
                        priority |-> "P2", rationale |-> "assault",
                        special_units |-> <<>>]),
               Answers([resources |->
                           WishDict(<<<<"ems", "yes">>, <<"fire", "no">>, <<"police", "yes">>>>),
                        priority |-> "P1", rationale |-> "cardiac arrest",
                        special_units |-> <<>>])},
        g \in {Answers([is_valid |-> True,
                        sanitized_recommendation |-> [summary |-> "Recommend dispatching EMS"],
                        flags |-> <<>>, blocked |-> False, block_reason |-> Null])}}

SecondTranscript == "There is smoke coming out of the garage"

ConcInit ==
    /\ mode \in {"sync", "stream"}
    /\ api_key = TRUE
    /\ pc = "extraction"
    /\ \E t \in Transcripts : state = [transcript |-> t, messages |-> <<>>]
    /\ outputs = <<>>
    /\ events = <<>>
    /\ serfails = 0
    /\ dumps_fails = FALSE
    /\ http = "running"
    /\ \E sc \in Scripts :
          run = [id |-> 1, scripted |-> TRUE, script |-> sc, transient |-> FALSE]
    /\ \E m \in {"sync", "stream"}, t \in Transcripts \cup {SecondTranscript},
          sc \in Scripts :
          other = [id |-> 2, scripted |-> TRUE, script |-> sc, transient |-> FALSE,
                   mode |-> m,
                   pc |-> "extraction",
                   state |-> [transcript |-> t, messages |-> <<>>],
                   outputs |-> <<>>, events |-> <<>>, serfails |-> 0,
                   http |-> "running"]
    /\ defaults = ModuleDefaults

\* The request being served, in the shape of a suspended one.
CurrentRun ==
    [id |-> run.id, scripted |-> run.scripted, script |-> run.script,
     transient |-> run.transient, mode |-> mode,
     pc |-> pc, state |-> state, outputs |-> outputs, events |-> events,
     serfails |-> serfails, http |-> http]

\* The worker serving the other request gets the processor: the requests
\* interleave node by node, in any order.
Switch ==
    /\ other.pc # "NONE"
    /\ run' = [id |-> other.id, scripted |-> other.scripted, script |-> other.script,
               transient |-> other.transient]
    /\ mode' = other.mode
    /\ pc' = other.pc
    /\ state' = other.state
    /\ outputs' = other.outputs
    /\ events' = other.events
    /\ serfails' = other.serfails
    /\ http' = other.http
    /\ other' = CurrentRun
    /\ UNCHANGED <<api_key, dumps_fails, defaults>>

ConcNext == Next \/ Switch

ConcSpec == ConcInit /\ [][ConcNext]_vars

\* Runs over a network with transient errors, each with a mocked service
\* that answers by one of the scripts; the credential may be missing.
RetryInit ==
    /\ mode \in {"sync", "stream"}
    /\ api_key \in BOOLEAN
    /\ pc = "extraction"
    /\ \E t \in Transcripts : state = [transcript |-> t, messages |-> <<>>]
    /\ outputs = <<>>
    /\ events = <<>>
    /\ serfails = 0
    /\ dumps_fails = FALSE
    /\ http = "running"
    /\ \E sc \in Scripts :
          run = [id |-> 1, scripted |-> TRUE, script |-> sc, transient |-> TRUE]
    /\ other = NoRun
    /\ defaults = ModuleDefaults

RetrySpec == RetryInit /\ [][Next]_vars

\* safe_json_parse on its own: every response text of at most MaxText
\* tokens.
MaxText == 4

ParsePayload == [location |-> "123 Main St"]

ParseInit ==
    /\ mode = "sync"
    /\ api_key = TRUE
    /\ pc = "safe_json_parse"
    /\ \E content \in SeqsUpTo(Tokens, MaxText) : state = [content |-> content]
    /\ outputs = <<>>
    /\ events = <<>>
    /\ serfails = 0
    /\ dumps_fails = FALSE
    /\ http = "running"
    /\ run = SoleRun
    /\ other = NoRun
    /\ defaults = ModuleDefaults

\* The call returns: its result is logged as the output of safe_json_parse.
Parse ==
    /\ pc = "safe_json_parse"
    /\ LET result == safe_json_parse(state["content"], ParsePayload) IN
       outputs' = <<[agent |-> "safe_json_parse", data |-> result,
                     fault |-> IF result.ok THEN "none" ELSE "parse", calls |-> 0]>>
    /\ pc' = "returned"
    /\ UNCHANGED <<mode, api_key, state, events, serfails, dumps_fails, http,
                   run, other, defaults>>

ParseSpec == ParseInit /\ [][Parse]_vars

----------------------------------------------------------------------------
(* Reading the log *)

Nodes ==
    {"extraction", "triage", "next_question", "dispatch_planner",
     "resource_locator", "safety_guardrail", "wait_for_info"}

LLMNodes ==
    {"extraction", "triage", "next_question", "dispatch_planner", "safety_guardrail"}

Executed(node) == \E i \in 1..Len(outputs) : outputs[i].agent = node

TimesExecuted(node) == Cardinality({i \in 1..Len(outputs) : outputs[i].agent = node})

\* The branch after next_question has been decided.
Routed == Executed("next_question")

\* The declared default of each decorated node.
DefaultOf(node) ==
    CASE node = "extraction" -> extraction_default
      [] node = "triage" -> triage_default
      [] node = "next_question" -> next_question_default
      [] node = "dispatch_planner" -> dispatch_planner_default
      [] node = "resource_locator" -> resource_locator_default
      [] node = "safety_guardrail" -> safety_guardrail_default

Location == Get(Get(state, "extracted", EmptyDict), "location", Null)

\* incident_type is known: a classification, not "unknown", nor empty, nor
\* the "unknown - ..." text of the triage fallback (the reading of "known"
\* most favourable to the claims that use it).
IncidentKnown ==
    /\ "incident_type" \in DOMAIN state
    /\ state["incident_type"] \notin {"unknown", "", Null, "unknown - processing error"}

----------------------------------------------------------------------------
(* Claims *)

\* C1: after next_question, when severity is P1 or P2 and incident_type is
\* known (not "unknown"), the branch selects dispatch_planner whatever
\* info_complete and the location are, and the final dispatch_recommendation
\* is not the pending_info one.
C1_UrgentAlwaysDispatches ==
    (Routed /\ Get(state, "severity", Null) \in {"P1", "P2"} /\ IncidentKnown)
        => /\ pc # "wait_for_info"
           /\ ~Executed("wait_for_info")
           /\ (pc = "END" =>
                 Get(state["dispatch_recommendation"], "status", Null) # "pending_info")

\* C2: whatever exception the function of a decorated node raises, it does
\* not leave the decorator: the node returns its declared default plus the
\* _error marker of the handler, and the graph goes on to the next node.
C2_GuardNeverPropagates ==
    /\ pc # "ABORTED"
    /\ \A i \in 1..Len(outputs) :
          outputs[i].fault \in ExcKinds =>
             /\ outputs[i].data =
                   DictMerge(DefaultOf(outputs[i].agent),
                             "_error" :> ErrorText(outputs[i].fault))
             /\ (i = Len(outputs) => pc \in Nodes \cup {"END"})

\* C2 witness: a finished run in which every node that calls the service
\* raised, with several exception classes among them.
C2_Witness ==
    /\ pc = "END"
    /\ \A i \in 1..Len(outputs) :
          outputs[i].agent \in LLMNodes => outputs[i].fault \in ExcKinds
    /\ \E i, j \in 1..Len(outputs) :
          outputs[i].fault = "Exception" /\ outputs[j].fault = "JSONDecodeError"

\* C3 (safety part): no node runs twice, and a run that has ended has run
\* exactly one of the terminal nodes, as its last node.
C3_Shape ==
    /\ \A n \in Nodes : TimesExecuted(n) <= 1
    /\ pc = "END" =>
          /\ TimesExecuted("safety_guardrail") + TimesExecuted("wait_for_info") = 1
          /\ outputs[Len(outputs)].agent \in {"safety_guardrail", "wait_for_info"}
    /\ pc \in Nodes \cup {"END"}

\* C3: for every combination of per-stage outcomes a synchronous run reaches
\* exactly one terminal stage and then ends; no stage runs more than once.
C3_Terminates == []C3_Shape /\ <>[](pc = "END" /\ http # "running")

\* C3 witness: ended runs on either branch with a raised failure, an
\* unparseable response and a success among the stages.
C3_Witness ==
    /\ pc = "END" /\ http # "running" /\ mode = "sync"
    /\ Executed("safety_guardrail")
    /\ \E i, j, k \in 1..Len(outputs) :
          /\ outputs[i].fault \in ExcKinds
          /\ outputs[j].fault = "parse"
          /\ outputs[k].fault = "none" /\ outputs[k].agent \in LLMNodes

\* The fields of the run state a finished run must hold.
RunFields ==
    {"transcript", "extracted", "incident_type", "severity", "key_risks",
     "missing_info", "suggested_questions", "info_complete",
     "dispatch_recommendation", "nearest_resources", "validated_output"}

\* C4: when a run has reached a terminal stage, on either branch and for
\* every combination of stage outcomes, the state holds every field.
C4_AllFieldsAtEnd == pc = "END" => RunFields \subseteq DOMAIN state

\* C4 witness: a run ended at wait_for_info in which a stage raised and a
\* stage got an unparseable response.
C4_Witness ==
    /\ pc = "END" /\ Executed("wait_for_info")
    /\ \E i, j \in 1..Len(outputs) :
          outputs[i].fault \in ExcKinds /\ outputs[j].fault = "parse"
    /\ RunFields \subseteq DOMAIN state

\* The failure classes C5 names, and the marker text of each.
C5Classes == {"parse", "JSONDecodeError", "ValueError", "ConnectionError"}

C5MarkerOf(fault) ==
    IF fault \in {"parse", "JSONDecodeError"} THEN "JSON parsing error"
    ELSE ErrorText(fault)

\* C5: when exactly one stage that calls the service fails, with a parse,
\* connectivity or configuration failure, the run is not aborted, that
\* stage's output carries an _error marker naming the failure class, and no
\* other stage's output carries a marker.
C5_SingleFailureMarked ==
    \A i \in 1..Len(outputs) :
       (/\ pc \in {"END", "ABORTED"}
        /\ outputs[i].agent \in LLMNodes
        /\ outputs[i].fault \in C5Classes
        /\ \A j \in 1..Len(outputs) : j # i => outputs[j].fault = "none")
       => /\ pc # "ABORTED"
          /\ "_error" \in DOMAIN outputs[i].data
          /\ outputs[i].data["_error"] = C5MarkerOf(outputs[i].fault)
          /\ \A j \in 1..Len(outputs) : j # i => "_error" \notin DOMAIN outputs[j].data

\* The branch taken after next_question.
TookWait == pc = "wait_for_info" \/ Executed("wait_for_info")

InfoComplete == Truthy(Get(state, "info_complete", False))

\* C6: with severity P3, P4 or null, info_complete false and no location
\* the branch selects wait_for_info; and wait_for_info is selected only when
\* none of the dispatch conditions holds (severity P1/P2 with a known
\* incident_type; info_complete; location known and incident_type known).
C6_WaitOnlyWithoutGrounds ==
    Routed =>
       /\ (/\ Get(state, "severity", Null) \in {"P3", "P4", Null}
           /\ ~InfoComplete
           /\ Location = Null) => TookWait
       /\ TookWait =>
             /\ ~(Get(state, "severity", Null) \in {"P1", "P2"} /\ IncidentKnown)
             /\ ~InfoComplete
             /\ ~(Location # Null /\ IncidentKnown)

\* C7: a run that takes the wait_for_info branch ends with the pending_info
\* recommendation (all resources "no", no priority, needs_more_info), no
\* nearest resources, and a validated_output that is not valid and pending.
C7_WaitSentinels ==
    Executed("wait_for_info") =>
       LET rec == Get(state, "dispatch_recommendation", EmptyDict)
           val == Get(state, "validated_output", EmptyDict)
       IN  /\ Get(rec, "priority", "") = Null
           /\ Get(rec, "status", "") = "pending_info"
           /\ Get(rec, "resources", WishDict(<<>>)) =
                 WishDict(<<<<"ems", "no">>, <<"fire", "no">>, <<"police", "no">>>>)
           /\ Get(rec, "needs_more_info", "") = True
           /\ Get(state, "nearest_resources", <<"absent">>) = <<>>
           /\ Get(val, "is_valid", "") = False
           /\ Get(val, "status", "") = "pending_info"

\* C7 witness: a finished run on the wait_for_info branch.
C7_Witness ==
    /\ pc = "END" /\ http = "200" /\ Executed("wait_for_info")
    /\ state["dispatch_recommendation"]["status"] = "pending_info"

\* The two orders in which the graph can run its nodes.
DispatchPath ==
    <<"extraction", "triage", "next_question", "dispatch_planner",
      "resource_locator", "safety_guardrail">>

WaitPath == <<"extraction", "triage", "next_question", "wait_for_info">>

IsPrefix(p, q) == Len(p) <= Len(q) /\ \A i \in 1..Len(p) : p[i] = q[i]

DataEvents == SelectSeq(events, LAMBDA e : e.type = "data")

Markers == SelectSeq(events, LAMBDA e : e.type # "data")

EventAgents == [i \in 1..Len(DataEvents) |-> DataEvents[i].agent]

\* C8: a streaming run yields exactly one data event per executed stage, in
\* execution order (the stages of one branch only), also for a stage that
\* fell back to its default, and ends with exactly one terminal marker.
C8_OneEventPerStage ==
    mode = "stream" =>
       /\ Len(DataEvents) = Len(outputs)
       /\ \A i \in 1..Len(outputs) :
             events[i].type = "data" /\ events[i].agent = outputs[i].agent
       /\ IsPrefix(EventAgents, DispatchPath) \/ IsPrefix(EventAgents, WaitPath)
       /\ Len(Markers) = (IF http = "running" THEN 0 ELSE 1)
       /\ http # "running" =>
             /\ events[Len(events)].type = "done"
             /\ EventAgents \in {DispatchPath, WaitPath}

\* C8 witness: a finished stream of the dispatch branch in which a stage
\* fell back to its default and json.dumps failed on an event.
C8_Witness ==
    /\ mode = "stream" /\ http # "running" /\ serfails = 1
    /\ EventAgents = DispatchPath
    /\ \E i \in 1..Len(outputs) : "_error" \in DOMAIN outputs[i].data
    /\ events[Len(events)].type = "done"

\* C9: a stream ends with exactly one terminal marker, done or error, as
\* its last event, and with the error marker (not done) when an exception
\* left the graph; nothing is yielded before the end but data events.
C9_OneTerminalMarker ==
    mode = "stream" =>
       /\ \A i \in 1..Len(events) :
             events[i].type \in {"data", "done", "error"}
             /\ (events[i].type # "data" => i = Len(events) /\ http # "running")
       /\ http # "running" =>
             /\ events # <<>>
             /\ events[Len(events)].type = (IF pc = "ABORTED" THEN "error" ELSE "done")

\* C9 witness: a stream cut short by an exception after two data events.
C9_Witness ==
    /\ mode = "stream" /\ pc = "ABORTED" /\ http # "running"
    /\ Len(events) = 3
    /\ events[3].type = "error" /\ events[2].type = "data"

\* The items of a dict wish-list the locator answers: marked "yes" and, in
\* lower case, a category of the table.
Requested(items) ==
    SelectSeq(items, LAMBDA it : it[2] = "yes" /\ lower(it[1]) \in {"ems", "fire", "police"})

\* C10: for a dict wish-list resource_locator emits one entry per category
\* marked "yes" that the table has, none for the others, in wish-list
\* order, typed with the upper-cased name and carrying the first unit of
\* the table for the category.
C10_LocatorDict ==
    (/\ Executed("resource_locator")
     /\ "resources" \in DOMAIN state["dispatch_recommendation"]
     /\ state["dispatch_recommendation"]["resources"].shape = "dict")
    => LET items == state["dispatch_recommendation"]["resources"].items
           want == Requested(items)
           got == state["nearest_resources"]
       IN  /\ Len(got) = Len(want)
           /\ \A i \in 1..Len(want) :
                 LET first == resource_database[lower(want[i][1])][1] IN
                 /\ got[i].type = upper(want[i][1])
                 /\ got[i].unit = first.name
                 /\ got[i].station = first.station
                 /\ got[i].eta_minutes = first.eta_minutes
                 /\ got[i].distance_miles = first.distance_miles
           /\ items = <<<<"ems", "yes">>, <<"fire", "no">>, <<"police", "yes">>>>
                 => /\ Len(got) = 2
                    /\ got[1].type = "EMS" /\ got[1].unit = "Medic Unit 7"
                    /\ got[2].type = "POLICE" /\ got[2].unit = "Unit 42"

\* C10 witness: the wish-list of the example, answered.
C10_Witness ==
    /\ Executed("resource_locator")
    /\ "resources" \in DOMAIN state["dispatch_recommendation"]
    /\ state["dispatch_recommendation"]["resources"] =
          WishDict(<<<<"ems", "yes">>, <<"fire", "no">>, <<"police", "yes">>>>)
    /\ Len(state["nearest_resources"]) = 2

\* C11: every entry resource_locator emits is addressed to extracted.location
\* when the location is known, and to the "Unknown location" sentinel when it
\* is not: when extracted.location is present but null (an extraction that
\* failed or found no location) and when extracted has no location key.
C11_DestinationOrSentinel ==
    Executed("resource_locator") =>
       \A i \in 1..Len(state["nearest_resources"]) :
          state["nearest_resources"][i].destination =
             IF Location # Null THEN Location ELSE "Unknown location"

\* The wish-list resource_locator read (none when the key is missing).
WishRead == Get(Get(state, "dispatch_recommendation", EmptyDict), "resources", WishDict(<<>>))

\* Every item of the wish-list names a category (is a string).
NamesOnly == \A i \in 1..Len(WishRead.items) : WishRead.items[i][1] # Null

\* The items of the wish-list that ask for a category of the table.
Recognized ==
    SelectSeq(WishRead.items,
              LAMBDA it : /\ lower(it[1]) \in {"ems", "fire", "police"}
                          /\ (WishRead.shape = "dict" => it[2] = "yes"))

\* C12: given a wish-list (of either shape) that names a category the table
\* does not have, resource_locator emits no entry for that category, still
\* emits the entries of the recognized requested categories, and does not
\* fail (its output has no _error); an empty or missing wish-list yields an
\* empty nearest_resources.
C12_UnknownCategorySkipped ==
    (Executed("resource_locator") /\ NamesOnly) =>
       /\ \A i \in 1..Len(outputs) :
             outputs[i].agent = "resource_locator" =>
                /\ outputs[i].fault = "none"
                /\ "_error" \notin DOMAIN outputs[i].data
       /\ Len(state["nearest_resources"]) = Len(Recognized)
       /\ \A i \in 1..Len(Recognized) :
             state["nearest_resources"][i].type = upper(Recognized[i][1])
       /\ (WishRead.items = <<>> => state["nearest_resources"] = <<>>)

\* C12 witness: a dict wish-list asking for hazmat, which the table lacks,
\* and then for EMS, answered with the one EMS entry.
C12_Witness ==
    /\ Executed("resource_locator")
    /\ WishRead = WishDict(<<<<"hazmat", "yes">>, <<"EMS", "yes">>>>)
    /\ Len(state["nearest_resources"]) = 1
    /\ state["nearest_resources"][1].type = "EMS"

\* The mapping-shaped wish-list that marks exactly the categories of a list
\* "yes": one key per category, in order of first appearance.
RECURSIVE MarkedYes(_, _)
MarkedYes(items, seen) ==
    IF items = <<>> THEN <<>>
    ELSE IF Head(items)[1] \in seen THEN MarkedYes(Tail(items), seen)
    ELSE <<<<Head(items)[1], "yes">>>>
            \o MarkedYes(Tail(items), seen \cup {Head(items)[1]})

\* What resource_locator_agent answers in the current state when the
\* wish-list is replaced by w.
LocatedFor(w) ==
    resource_locator_agent(
        [state EXCEPT !["dispatch_recommendation"] =
            DictMerge(@, "resources" :> w)]).val["nearest_resources"]

ListWishRun ==
    /\ Executed("resource_locator")
    /\ WishRead.shape = "list"
    /\ NamesOnly

GuardrailParseFailed ==
    \E i \in 1..Len(outputs) :
       outputs[i].agent = "safety_guardrail" /\ outputs[i].fault = "parse"

\* C14: when safety_guardrail runs and the parse of its own response fails,
\* validated_output has is_valid true and blocked false, its
\* sanitized_recommendation is the unsanitized dispatch_recommendation of the
\* state, and its flags hold a note asking for manual review.
C14_GuardrailParsePassThrough ==
    GuardrailParseFailed =>
       LET v == state["validated_output"] IN
       /\ v.is_valid = True
       /\ v.blocked = False
       /\ v.sanitized_recommendation = state["dispatch_recommendation"]
       /\ \E i \in 1..Len(v.flags) :
             v.flags[i] = "Guardrail parsing failed - review manually"

\* C14 witness: the planner answered a recommendation of its own (not a
\* default), the guardrail's response did not parse, and the run ended.
C14_Witness ==
    /\ GuardrailParseFailed
    /\ pc = "END"
    /\ \E i \in 1..Len(outputs) :
          outputs[i].agent = "dispatch_planner" /\ outputs[i].fault = "none"
    /\ "resources" \in DOMAIN state["dispatch_recommendation"]
    /\ state["validated_output"].sanitized_recommendation # EmptyDict

\* The stages of the log that wrote a field (a key of their update that is a
\* channel of DispatcherState).
WritersOf(field) ==
    {i \in 1..Len(outputs) : field \in DOMAIN outputs[i].data}

\* The fields a node owns.
OwnedBy(node) ==
    CASE node = "extraction" -> {"extracted"}
      [] node = "triage" -> {"incident_type", "severity", "key_risks"}
      [] node = "next_question" -> {"missing_info", "suggested_questions", "info_complete"}
      [] node = "dispatch_planner" -> {"dispatch_recommendation"}
      [] node = "resource_locator" -> {"nearest_resources"}
      [] node = "safety_guardrail" -> {"validated_output"}
      [] node = "wait_for_info" ->
            {"dispatch_recommendation", "nearest_resources", "validated_output"}

\* C15: in every run transcript is never written by a stage, each of the
\* ten result fields is written by at most one executed stage (fallback
\* updates included), the stage that writes it owns it, and the state
\* holds the value that stage wrote: no later stage wrote the field again.
C15_WrittenOnce ==
    /\ WritersOf("transcript") = {}
    /\ \A field \in RunFields :
          /\ Cardinality(WritersOf(field)) <= 1
          /\ \A i \in WritersOf(field) :
                /\ field \in OwnedBy(outputs[i].agent)
                /\ state[field] = outputs[i].data[field]

\* C15 witness: a finished dispatch run in which a stage fell back to its
\* default, with all ten fields written.
C15_Witness ==
    /\ pc = "END"
    /\ Executed("safety_guardrail")
    /\ \E i \in 1..Len(outputs) : outputs[i].fault # "none"
    /\ \A field \in RunFields \ {"transcript"} : Cardinality(WritersOf(field)) = 1

OutputAgents == [i \in 1..Len(outputs) |-> outputs[i].agent]

OnAPath(p) == IsPrefix(p, DispatchPath) \/ IsPrefix(p, WaitPath)

\* The state a run started from, and the state once the updates of its
\* first n stages are merged.
StartState == [transcript |-> state["transcript"], messages |-> <<>>]

RECURSIVE StateAfter(_)
StateAfter(n) ==
    IF n = 0 THEN StartState ELSE Merge(StateAfter(n - 1), outputs[n].data)

\* C16: the stages of a run execute in flow order (extraction, triage,
\* next_question, the branch decision, then dispatch_planner,
\* resource_locator, safety_guardrail on the dispatch branch), the stage
\* about to start is the successor of the last one executed, the state it
\* reads holds the merged update (real or default) of every earlier stage,
\* and the branch decision and the stages that call no service are computed
\* from exactly that state.
C16_FlowOrder ==
    /\ OnAPath(OutputAgents)
    /\ (pc \in Nodes => OnAPath(Append(OutputAgents, pc)))
    /\ state = StateAfter(Len(outputs))
    /\ \A i \in 1..Len(outputs) :
          \A k \in (DOMAIN outputs[i].data) \cap StateKeys :
             k \in DOMAIN state /\ state[k] = outputs[i].data[k]
    /\ ((Len(outputs) = 3 /\ pc # "ABORTED") => pc = should_dispatch(StateAfter(3)))
    /\ (Len(outputs) >= 4 => outputs[4].agent = should_dispatch(StateAfter(3)))
    /\ \A i \in 1..Len(outputs) :
          /\ (outputs[i].agent = "resource_locator" =>
                outputs[i].data = resource_locator_agent(StateAfter(i - 1)).val)
          /\ (outputs[i].agent = "wait_for_info" =>
                outputs[i].data = wait_for_info_node(StateAfter(i - 1)).val)

\* C16 witness: a finished dispatch run whose locator answered entries
\* for the wish-list the planner wrote, addressed to the extracted location.
C16_Witness ==
    /\ pc = "END"
    /\ OutputAgents = DispatchPath
    /\ Location = "123 Main St"
    /\ Len(state["nearest_resources"]) >= 1
    /\ state["nearest_resources"][1].destination = "123 Main St"

\* The branch taken after next_question ("none" before the decision).
Branch ==
    IF Len(outputs) >= 4 THEN outputs[4].agent
    ELSE IF Len(outputs) = 3 /\ pc \in Nodes THEN pc
    ELSE "none"

\* C19: whenever info_complete is true the branch selects dispatch_planner,
\* whatever severity, incident_type and location are.
C19_CompleteDispatches ==
    (Branch # "none" /\ Get(state, "info_complete", False) = True)
       => Branch = "dispatch_planner"

\* C19 witness: info_complete true with no location and an unknown
\* incident_type, routed to dispatch_planner.
C19_Witness ==
    /\ Branch = "dispatch_planner"
    /\ state["info_complete"] = True
    /\ Location = Null
    /\ state["incident_type"] = "unknown"
    /\ state["severity"] = "P4"

\* The state cut down to the four inputs the decision may depend on.
DecisionInputs ==
    [k \in (DOMAIN state) \cap {"severity", "incident_type", "info_complete"} |-> state[k]]
    @@ (IF "extracted" \in DOMAIN state /\ "location" \in DOMAIN state["extracted"]
        THEN "extracted" :> [location |-> state["extracted"]["location"]]
        ELSE IF "extracted" \in DOMAIN state THEN "extracted" :> EmptyDict
        ELSE EmptyDict)

\* C20: whenever info_complete is false, extracted.location is not null and
\* incident_type is known (not empty, not "unknown"), the branch selects
\* dispatch_planner; and in every state the decision is the one
\* should_dispatch takes from severity, incident_type, info_complete and
\* extracted.location alone, with no response of the service involved.
C20_LocatedKnownDispatches ==
    Branch # "none" =>
       /\ (/\ ~Truthy(Get(state, "info_complete", False))
           /\ Location # Null
           /\ Truthy(Get(state, "incident_type", Null))
           /\ state["incident_type"] # "unknown")
          => Branch = "dispatch_planner"
       /\ Branch = should_dispatch(DecisionInputs)

\* C20 witness: info_complete false, a location and a classified incident,
\* routed to dispatch_planner.
C20_Witness ==
    /\ Branch = "dispatch_planner"
    /\ state["info_complete"] = False
    /\ Location = "123 Main St"
    /\ state["incident_type"] = "cardiac arrest"

\* Two requests are in progress.
TwoRuns == other.pc # "NONE"

RunDone(r) == r.pc = "END" /\ r.http # "running"

\* What a run shows of its stages: agent and update of each, in order.
StageUpdates(r) ==
    [i \in 1..Len(r.outputs) |-> [agent |-> r.outputs[i].agent, data |-> r.outputs[i].data]]

\* C17: two separate runs of one process, given the same transcript and the
\* same scripted response for every stage, take the same branch, return the
\* same stage updates and end in the same state (and, served by the same
\* endpoint, with the same events and outcome), however their stages
\* interleave: nothing of one run is remembered in the other.
C17_SameInputsSameRun ==
    (/\ TwoRuns
     /\ RunDone(CurrentRun)
     /\ RunDone(other)
     /\ state["transcript"] = other.state["transcript"]
     /\ run.script = other.script)
    => /\ state = other.state
       /\ StageUpdates(CurrentRun) = StageUpdates(other)
       /\ (mode = other.mode => events = other.events /\ http = other.http)

\* C17 witness: both runs are over, on the same transcript and script, one
\* streamed and one not, and both fell back to the shared default of
\* extraction and then took the dispatch branch.
C17_Witness ==
    /\ TwoRuns
    /\ RunDone(CurrentRun)
    /\ RunDone(other)
    /\ state["transcript"] = other.state["transcript"]
    /\ run.script = other.script
    /\ mode # other.mode
    /\ outputs[1].fault = "ConnectionError"
    /\ Executed("safety_guardrail")

\* What node answers on state st to a run served alone by a fresh process:
\* the node's function under the decorator with the default as declared.
AloneUpdate(st, node, script) ==
    CASE node = "extraction" ->
            with_error_handling(extraction_default,
                                extraction_body(st, script[node])).val
      [] node = "triage" ->
            with_error_handling(triage_default, triage_body(st, script[node])).val
      [] node = "next_question" ->
            with_error_handling(next_question_default,
                                next_question_body(st, script[node])).val
      [] node = "dispatch_planner" ->
            with_error_handling(dispatch_planner_default,
                                dispatch_planner_body(st, script[node])).val
      [] node = "resource_locator" ->
            with_error_handling(resource_locator_default, resource_locator_body(st)).val
      [] node = "safety_guardrail" ->
            with_error_handling(safety_guardrail_default,
                                safety_guardrail_body(st, script[node])).val
      [] node = "wait_for_info" -> wait_for_info_node(st).val

\* The state of the run alone once the first n stages of path have run.
RECURSIVE AloneState(_, _, _, _)
AloneState(t, script, path, n) ==
    IF n = 0 THEN [transcript |-> t, messages |-> <<>>]
    ELSE LET before == AloneState(t, script, path, n - 1)
         IN  Merge(before, AloneUpdate(before, path[n], script))

\* The stages the run alone goes through.
AlonePath(t, script) ==
    IF should_dispatch(AloneState(t, script, DispatchPath, 3)) = "dispatch_planner"
    THEN DispatchPath
    ELSE WaitPath

\* r is, as far as it has got, the run that its transcript and script give
\* when served alone.
AsAlone(r) ==
    LET t == r.state["transcript"]
        path == AlonePath(t, r.script)
        n == Len(r.outputs)
        update(i) == AloneUpdate(AloneState(t, r.script, path, i - 1), path[i], r.script)
    IN  /\ n <= Len(path)
        /\ \A i \in 1..n :
              r.outputs[i].agent = path[i] /\ r.outputs[i].data = update(i)
        /\ r.state = AloneState(t, r.script, path, n)
        /\ (r.pc # "END" => r.pc = path[n + 1])
        /\ (r.mode = "stream" =>
              r.events = [i \in 1..n |-> StreamEvent(path[i], update(i), TRUE)]
                            \o (IF r.http = "running" THEN <<>> ELSE <<DoneEvent>>))
        /\ (r.mode = "sync" =>
              /\ r.events = <<>>
              /\ r.http \in {"running",
                             IF DispatchResponseValid(r.state)
                             THEN "200" ELSE SyncFailure("ValueError")})

\* C18: two runs on different transcripts served concurrently, their stages
\* interleaved in any order, are independent: at every point each run's
\* state, stage updates and streamed events are those of the same run
\* served alone, and the module-level default dicts, the one thing both
\* runs read, are as they were at import, also after a run fell back to
\* them and after event_generator tagged a fallback with _had_error.
C18_RunsIndependent ==
    (TwoRuns /\ state["transcript"] # other.state["transcript"]) =>
       /\ defaults = ModuleDefaults
       /\ AsAlone(CurrentRun)
       /\ AsAlone(other)

\* C18 witness: both runs are over, on different transcripts; the streamed
\* one fell back to the default of extraction and its event was tagged
\* _had_error; the other one fell back to the same default.
C18_Witness ==
    /\ TwoRuns
    /\ state["transcript"] # other.state["transcript"]
    /\ RunDone(CurrentRun)
    /\ RunDone(other)
    /\ mode = "stream"
    /\ outputs[1].fault = "ConnectionError"
    /\ "_had_error" \in DOMAIN events[1].data
    /\ other.outputs[1].fault = "ConnectionError"
    /\ other.script # run.script

\* dispatch_planner ran and its primary path failed: it raised, or its
\* response did not parse.
PlannerFailed ==
    \E i \in 1..Len(outputs) :
       outputs[i].agent = "dispatch_planner" /\ outputs[i].fault # "none"

\* C21: whenever the primary path of dispatch_planner fails (unparseable
\* response or raised failure), the dispatch_recommendation it writes asks
\* for ems "yes", fire "no", police "no" and has the severity of the state
\* as its priority, P2 only when the state has no severity.
C21_PlannerDefaultEchoesSeverity ==
    PlannerFailed =>
       /\ state["dispatch_recommendation"].resources =
             WishDict(<<<<"ems", "yes">>, <<"fire", "no">>, <<"police", "no">>>>)
       /\ state["dispatch_recommendation"].priority =
             IF Get(state, "severity", Null) # Null THEN state["severity"] ELSE "P2"

\* The errors list of dispatch_emergency: for key, value in result.items(),
\* the keys whose value is a dict holding "_error".  Of the channels of the
\* final state extracted, dispatch_recommendation, validated_output and
\* evaluation_report are dicts.
errors(result) ==
    {key \in (DOMAIN result) \cap {"extracted", "dispatch_recommendation",
                                    "validated_output", "evaluation_report"} :
        "_error" \in DOMAIN result[key]}

\* The stages whose guard fell back to its default in this run.
FellBack == {outputs[i].agent : i \in {j \in 1..Len(outputs) : outputs[j].fault \in ExcKinds}}

\* A synchronous run has returned from dispatcher_graph.invoke and
\* dispatch_emergency has built its list of erred stages.
SyncReturned == mode = "sync" /\ pc = "END" /\ http # "running"

\* C22: after a synchronous run the boundary-level list of erred stages has
\* an entry for every stage whose guard fell back to its default in the run
\* (so two stages that fell back are told apart), and is empty exactly when
\* no stage fell back.
C22_ErrorsListNamesFallbacks ==
    SyncReturned =>
       /\ Cardinality(errors(state)) = Cardinality(FellBack)
       /\ (errors(state) = {} <=> FellBack = {})

\* C23: whatever the service answers at each stage, well-formed JSON with
\* missing, null or wrongly typed fields included, the synchronous call
\* returns a result to the caller: it never ends as a faulted run nor as a
\* "Service configuration error".
C23_SyncAlwaysReturns ==
    (mode = "sync" /\ api_key /\ http # "running") => (pc = "END" /\ http = "200")

\* json.dumps failed on the event of some stage of a streaming run.
SerializationFailed == mode = "stream" /\ serfails > 0

\* C24: in a streaming run a failure while serializing a stage's event is
\* reported as a terminal run failure: once the stream has ended, its last
\* event is the error marker and no done marker was sent.
C24_SerializationFailureEndsInError ==
    (SerializationFailed /\ http # "running") =>
       /\ events[Len(events)].type = "error"
       /\ \A i \in 1..Len(events) : events[i].type # "done"

\* safety_guardrail ran and its primary path failed: its response did not
\* parse, or it raised.
GuardrailFailed ==
    \E i \in 1..Len(outputs) :
       outputs[i].agent = "safety_guardrail" /\ outputs[i].fault # "none"

\* C25: whenever safety_guardrail runs and its primary path fails in any
\* way, validated_output has is_valid true and blocked false and its
\* sanitized_recommendation is the recommendation dispatch_planner wrote.
C25_GuardrailFailureKeepsRecommendation ==
    GuardrailFailed =>
       /\ state["validated_output"].is_valid = True
       /\ state["validated_output"].blocked = False
       /\ state["validated_output"].sanitized_recommendation =
             state["dispatch_recommendation"]

\* triage ran and its primary path failed: its response did not parse, or
\* it raised.
TriageFailed ==
    \E i \in 1..Len(outputs) : outputs[i].agent = "triage" /\ outputs[i].fault # "none"

\* C26: if triage fails the branch treats incident_type as unknown: with
\* info_complete false a run whose triage failed goes to wait_for_info,
\* never to dispatch_planner, whether or not the location is known.
C26_FailedTriageIsUnknown ==
    (TriageFailed /\ Branch # "none" /\ ~Truthy(Get(state, "info_complete", False)))
       => Branch = "wait_for_info"

\* extraction, triage and next_question have run and each of them raised,
\* so that each answered with its guard default.
AllRaised ==
    /\ Len(outputs) >= 3
    /\ \A i \in 1..3 : outputs[i].fault \in ExcKinds

\* C27: when every stage that calls the service fails with a raised
\* failure (the credential is missing, say), the run ends at wait_for_info:
\* dispatch_planner, resource_locator and safety_guardrail never run, and
\* the final dispatch_recommendation has status "pending_info".
C27_AllRaisedWaits ==
    AllRaised =>
       /\ Branch = "wait_for_info"
       /\ ~Executed("dispatch_planner")
       /\ ~Executed("resource_locator")
       /\ ~Executed("safety_guardrail")
       /\ (pc = "END" => /\ Executed("wait_for_info")
                         /\ state["dispatch_recommendation"].status = "pending_info")

\* C27 witness: a finished run without the credential, ended by
\* wait_for_info.
C27_Witness ==
    /\ ~api_key
    /\ AllRaised
    /\ pc = "END"
    /\ http # "running"
    /\ OutputAgents = WaitPath

\* C28: whenever extraction has executed, by whatever path (success,
\* unparseable response, raised failure), extracted is a mapping with the
\* keys location, injuries, hazards, people_count and caller_info.
C28_ExtractedHasFiveKeys ==
    Executed("extraction") =>
       {"location", "injuries", "hazards", "people_count", "caller_info"}
          \subseteq DOMAIN state["extracted"]

\* The "no structured result" value.
NoResult == [ok |-> FALSE, isdict |-> FALSE, val |-> EmptyDict]

\* The text between the first "{" and the last "}" of c, braces included,
\* when both exist and the last "}" comes after the first "{".
HasBraced(c) ==
    \E i, j \in 1..Len(c) : i < j /\ c[i] = "{" /\ c[j] = "}"

Braced(c) ==
    LET i == CHOOSE k \in 1..Len(c) : c[k] = "{" /\ \A l \in 1..(k - 1) : c[l] # "{"
        j == CHOOSE k \in 1..Len(c) : c[k] = "}" /\ \A l \in (k + 1)..Len(c) : c[l] # "}"
    IN  [l \in 1..(j - i + 1) |-> c[i + l - 1]]

\* C29: for every input text safe_json_parse answers the parse of the
\* whole trimmed text when that succeeds; otherwise the parse of the
\* substring from the first "{" to the last "}" when both exist, the last
\* after the first, and that parse succeeds; otherwise the "no structured
\* result" value.  It always returns: no parse exception reaches the caller.
C29_SafeJsonParse ==
    pc = "returned" =>
       LET c == strip(state["content"])
           whole == json_loads(c, ParsePayload)
           got == outputs[1].data
       IN  got =
              IF whole.ok THEN whole
              ELSE IF HasBraced(c) /\ json_loads(Braced(c), ParsePayload).ok
              THEN json_loads(Braced(c), ParsePayload)
              ELSE NoResult

\* C29 witness: prose around an object, with a stray "}" before it: the
\* whole text does not parse, the text from the first "{" to the last "}"
\* does.
C29_Witness ==
    /\ pc = "returned"
    /\ state["content"] = <<"}", "{", "m", "}">>
    /\ outputs[1].data = [ok |-> TRUE, isdict |-> TRUE, val |-> ParsePayload]

\* The requests sent to the service by the first n stages of the run.
RECURSIVE RequestsSent(_)
RequestsSent(n) == IF n = 0 THEN 0 ELSE RequestsSent(n - 1) + outputs[n].calls

\* No stage outside the two flow paths has run; evaluation_report, the field
\* of after_action_evaluator, is not written.
EvaluatorNeverRuns ==
    /\ \A i \in 1..Len(outputs) : outputs[i].agent \in Nodes
    /\ pc # "after_action_evaluator"
    /\ "evaluation_report" \notin DOMAIN state

\* C30 (as stated): in one run the service is invoked at most once per
\* executed stage that calls it and never by resource_locator or
\* wait_for_info (nor by the branch decision): at most 3 invocations on the
\* wait_for_info branch and 5 on the dispatch branch; after_action_evaluator
\* never runs.
C30_OneInvocationPerStage ==
    /\ \A i \in 1..Len(outputs) :
          outputs[i].calls <= (IF outputs[i].agent \in LLMNodes THEN 1 ELSE 0)
    /\ RequestsSent(Len(outputs)) <= (IF Executed("wait_for_info") THEN 3 ELSE 5)
    /\ EvaluatorNeverRuns

\* C30 (amended): in one run each executed stage that calls the service
\* calls model.invoke once, which sends one request and, on transient
\* errors, up to max_retries more; resource_locator and wait_for_info (and
\* the branch decision) send none: at most 3 * (1 + max_retries) requests
\* on the wait_for_info branch and 5 * (1 + max_retries) on the dispatch
\* branch; after_action_evaluator never runs.
C30_BoundedRequestsPerStage ==
    /\ \A i \in 1..Len(outputs) :
          outputs[i].calls <=
             (IF outputs[i].agent \in LLMNodes THEN 1 + max_retries ELSE 0)
    /\ RequestsSent(Len(outputs)) <=
          (IF Executed("wait_for_info") THEN 3 ELSE 5) * (1 + max_retries)
    /\ EvaluatorNeverRuns

\* C30 witness: a finished dispatch run in which every stage that calls
\* the service used all its retries.
C30_Witness ==
    /\ pc = "END"
    /\ OutputAgents = DispatchPath
    /\ RequestsSent(Len(outputs)) = 5 * (1 + max_retries)
    /\ outputs[5].calls = 0

====
